---- MODULE Spec2Model ----
(***************************************************************************)
(* Builders of pkg/bmh (bare-metal host) and pkg/hypershift (node pool):   *)
(* construction, mutators, Create/Get/Exists/Delete and the poll loops     *)
(* WaitUntilInStatus, WaitForReplicas and WaitUntilDeleted, run against a  *)
(* cluster API whose answers are not under the builder's control.          *)
(***************************************************************************)
EXTENDS Integers, Sequences, FiniteSets, TLC

\* Bounds of the model.
MaxTimeout == 3        \* longest timeout passed to a wait, in poll intervals
MaxMut == 1            \* most root device hint fields set on one Definition
MaxReplicas == 2       \* largest replica count
MaxOptions == 2        \* most options passed to one WithOptions call

VARIABLES
    kind,        \* which builder the run is about: "bmh" or "nodepool"
    caller,      \* the calling program: "operator" constructs a builder and runs its
                 \* operations and waits; "builder" constructs one and calls its
                 \* mutators; "mixed" runs operations and short waits and calls one
                 \* mutator somewhere among them ("mixedDone" once it has)
    pc,          \* "new" (no builder yet), "idle", "polling" (inside a wait), "panic"
    Definition,  \* builder.Definition
    Object,      \* builder.Object
    alias,       \* builder.Object and builder.Definition are the same pointer
    errorMsg,    \* builder.errorMsg
    apiClient,   \* builder.apiClient is not nil
    remote,      \* the cluster's resource under the builder's name and namespace
    poll,        \* the running (or last finished) poll loop
    ret,         \* what the last call returned
    calls,       \* cluster API calls issued by the current (or last) call
    lastFetch    \* the last apiClient.Get of the current (or last) call

vars == <<kind, caller, pc, Definition, Object, alias, errorMsg, apiClient, remote,
          poll, ret, calls, lastFetch>>

builderVars == <<Definition, Object, alias, errorMsg, apiClient>>

----------------------------------------------------------------------------
\* Values

NilObj == [nil |-> TRUE]
NoHints == [nil |-> TRUE]
EmptyHints ==
    [DeviceName |-> "", HCTL |-> "", Model |-> "", Vendor |-> "",
     SerialNumber |-> "", MinSizeGigabytes |-> 0, WWN |-> "",
     WWNWithExtension |-> "", WWNVendorExtension |-> "", Rotational |-> "nil"]

Str == {"", "x"}
BootModes == {"UEFI", "bios"}
States == {"available", "provisioning", "provisioned", "ready"}
StateProvisioned == "provisioned"
StateProvisioning == "provisioning"
StateReady == "ready"
StateAvailable == "available"
Replicas == 0..MaxReplicas
Timeouts == IF caller = "operator" THEN 1..MaxTimeout ELSE {1}
Operates == caller # "builder"
Mutates == caller \in {"builder", "mixed"}

\* error values
NilErr == [class |-> "nil", text |-> "", cause |-> "nil"]
Errorf(m) == [class |-> "msg", text |-> m, cause |-> "nil"]
ApiErr(c) == [class |-> c, text |-> c, cause |-> "nil"]
ErrWaitTimeout ==
    [class |-> "Timeout", text |-> "timed out waiting for the condition", cause |-> "nil"]
Wrap(m, e) == [class |-> "Wrapped", text |-> m, cause |-> e.class]
PanicErr == [class |-> "panic", text |-> "nil pointer dereference", cause |-> "nil"]
IsNotFound(e) == e.class = "NotFound"

UndefinedCrdObjectErrString(crd) ==
    CASE crd = "BareMetalHost" -> "can not redefine the undefined BareMetalHost"
      [] crd = "bmh" -> "can not redefine the undefined bmh"
      [] OTHER -> "can not redefine the undefined NodePool"

----------------------------------------------------------------------------
\* The cluster

Absent == [present |-> FALSE, status |-> "none"]
InitialStatus == IF kind = "bmh" THEN "available" ELSE 0
StatusValues == IF kind = "bmh" THEN States ELSE Replicas
Present(s) == [present |-> TRUE, status |-> s]

\* What apiClient.Get can answer now: the object, not-found, or another fault.
FetchOutcomes == {"Other"} \cup (IF remote.present THEN {"ok"} ELSE {"NotFound"})
CreateOutcomes == {"ok", "Other"}
DeleteOutcomes == {"Other"} \cup (IF remote.present THEN {"ok"} ELSE {"NotFound"})

\* The object apiClient.Get fills in for key (name, nsname).
Fetched(name, nsname) ==
    IF kind = "bmh"
    THEN [Name |-> name, Namespace |-> nsname, Address |-> "x",
          CredentialsName |-> "x", BootMode |-> "UEFI", BootMACAddress |-> "x",
          RootDeviceHints |-> NoHints, State |-> remote.status]
    ELSE [Name |-> name, Namespace |-> nsname, ClusterName |-> "x",
          Release |-> "x", Replicas |-> 0, PlatformType |-> "Agent",
          StatusReplicas |-> remote.status]

GetObj(fo, name, nsname) == IF fo = "ok" THEN Fetched(name, nsname) ELSE NilObj
GetErr(fo) == IF fo = "ok" THEN NilErr ELSE ApiErr(fo)
FetchLog(fo, name, nsname) ==
    [class |-> fo, obj |-> GetObj(fo, name, nsname), present |-> remote.present]

NoFetch == [class |-> "none", obj |-> NilObj, present |-> FALSE]
NoCalls == [get |-> 0, create |-> 0, delete |-> 0, err |-> "nil"]
NoPoll ==
    [op |-> "none", cond |-> "none", target |-> "none", timeout |-> 0, clock |-> 0,
     due |-> FALSE, closed |-> FALSE, cycles |-> 0]
NoRet == [op |-> "none", err |-> NilErr, val |-> "none"]
Ret(op, err, val) == [op |-> op, err |-> err, val |-> val]

----------------------------------------------------------------------------
\* Construction

Init ==
    /\ kind \in {"bmh", "nodepool"}
    /\ caller \in {"operator", "builder", "mixed"}
    /\ pc = "new"
    /\ Definition = NilObj
    /\ Object = NilObj
    /\ alias = FALSE
    /\ errorMsg = ""
    /\ apiClient = TRUE
    /\ remote \in {Absent, Present(IF kind = "bmh" THEN "available" ELSE 0)}
    /\ poll = NoPoll
    /\ ret = NoRet
    /\ calls = NoCalls
    /\ lastFetch = NoFetch

bootModeAcceptable == {"UEFI", "UEFISecureBoot", "legacy"}

NewBuilderMsg(name, nsname, bmcAddress, bmcSecretName, bootMacAddress, bootMode) ==
    IF bootMacAddress = "" THEN "BMH 'bootMacAddress' cannot be empty"
    ELSE IF bootMode \notin bootModeAcceptable THEN "Not acceptable 'bootMode' value"
    ELSE IF bmcSecretName = "" THEN "BMH 'bmcSecretName' cannot be empty"
    ELSE IF bmcAddress = "" THEN "BMH 'bmcAddress' cannot be empty"
    ELSE IF nsname = "" THEN "BMH 'nsname' cannot be empty"
    ELSE IF name = "" THEN "BMH 'name' cannot be empty"
    ELSE ""

Count(b) == IF b THEN 1 ELSE 0

\* The argument lists the constructors are called with: at most one argument
\* of a call is invalid.
NewBuilderArgs ==
    {a \in [name : Str, nsname : Str, bmcAddress : Str, bmcSecretName : Str,
            bootMacAddress : Str, bootMode : BootModes] :
        Count(a.name = "") + Count(a.nsname = "") + Count(a.bmcAddress = "")
        + Count(a.bmcSecretName = "") + Count(a.bootMacAddress = "")
        + Count(a.bootMode \notin bootModeAcceptable) <= 1}

NewBuilder ==
    /\ pc = "new" /\ kind = "bmh"
    /\ \E cli \in BOOLEAN, a \in NewBuilderArgs :
        /\ apiClient' = cli
        /\ Definition' =
             [Name |-> a.name, Namespace |-> a.nsname, Address |-> a.bmcAddress,
              CredentialsName |-> a.bmcSecretName, BootMode |-> a.bootMode,
              BootMACAddress |-> a.bootMacAddress, RootDeviceHints |-> NoHints,
              State |-> ""]
        /\ errorMsg' = NewBuilderMsg(a.name, a.nsname, a.bmcAddress, a.bmcSecretName,
                                     a.bootMacAddress, a.bootMode)
    /\ pc' = "idle"
    /\ ret' = Ret("NewBuilder", NilErr, "builder")
    /\ UNCHANGED <<kind, caller, Object, alias, remote, poll, calls, lastFetch>>

NewNodePoolBuilderMsg(name, nsname, clusterName, release) ==
    IF release = "" THEN "nodepool 'release' cannot be empty"
    ELSE IF clusterName = "" THEN "nodepool 'clusterName' cannot be empty"
    ELSE IF nsname = "" THEN "nodepool 'namespace' cannot be empty"
    ELSE IF name = "" THEN "nodepool 'name' cannot be empty"
    ELSE ""

NewNodePoolBuilderArgs ==
    {a \in [name : Str, nsname : Str, clusterName : Str, agentNamespace : {"x"},
            release : Str, replicas : Replicas] :
        Count(a.name = "") + Count(a.nsname = "") + Count(a.clusterName = "")
        + Count(a.release = "") <= 1}

NewNodePoolBuilder ==
    /\ pc = "new" /\ kind = "nodepool"
    /\ \E cli \in BOOLEAN, a \in NewNodePoolBuilderArgs :
        /\ apiClient' = cli
        /\ Definition' =
             [Name |-> a.name, Namespace |-> a.nsname, ClusterName |-> a.clusterName,
              Release |-> a.release, Replicas |-> a.replicas, PlatformType |-> "Agent",
              StatusReplicas |-> 0]
        /\ errorMsg' = NewNodePoolBuilderMsg(a.name, a.nsname, a.clusterName, a.release)
    /\ pc' = "idle"
    /\ ret' = Ret("NewNodePoolBuilder", NilErr, "builder")
    /\ UNCHANGED <<kind, caller, Object, alias, remote, poll, calls, lastFetch>>

PullMsg(name, nsname) ==
    IF nsname = "" THEN "baremetalhost 'namespace' cannot be empty"
    ELSE IF name = "" THEN "baremetalhost 'name' cannot be empty"
    ELSE ""

PullNodePoolMsg(name, nsname) ==
    IF nsname = "" THEN "nodepool 'namespace' cannot be empty"
    ELSE IF name = "" THEN "nodepool 'name' cannot be empty"
    ELSE ""

----------------------------------------------------------------------------
\* Get and Exists

\* Exists' verdict on the error Get returned.
\* Faulty variant: any failed fetch counts as absence.
ExistsResultOnlyOnSuccess(err) == err = NilErr
ExistsResult(err) == err = NilErr \/ ~IsNotFound(err)

\* bmh: Get dereferences builder.Definition and builder.apiClient unchecked.
CanCall == Definition # NilObj /\ apiClient

\* hypershift: the errorMsg validate leaves behind ("" when the builder is valid).
ValidateMsg ==
    IF ~apiClient THEN "NodePool builder cannot have nil apiClient"
    ELSE IF Definition = NilObj THEN UndefinedCrdObjectErrString("NodePool")
    ELSE errorMsg

Bool(b) == IF b THEN "true" ELSE "false"

Panic(op) ==
    /\ pc' = "panic"
    /\ ret' = Ret(op, PanicErr, "none")
    /\ calls' = NoCalls
    /\ poll' = NoPoll
    /\ lastFetch' = NoFetch
    /\ UNCHANGED <<kind, caller, builderVars, remote>>

\* A call that returns without reaching the cluster.
Silent(op, err, val) ==
    /\ ret' = Ret(op, err, val)
    /\ calls' = NoCalls
    /\ poll' = NoPoll
    /\ lastFetch' = NoFetch
    /\ UNCHANGED <<kind, pc, remote>>

Quiet(op, err, val) == Silent(op, err, val) /\ UNCHANGED caller

\* A mutator returns the builder.
Mutated(op) ==
    /\ Silent(op, NilErr, "builder")
    /\ caller' = IF caller = "mixed" THEN "mixedDone" ELSE caller

Get ==
    /\ pc = "idle" /\ kind = "bmh" /\ Operates
    /\ IF ~CanCall THEN Panic("Get")
       ELSE \E fo \in FetchOutcomes :
            /\ lastFetch' = FetchLog(fo, Definition.Name, Definition.Namespace)
            /\ calls' = [NoCalls EXCEPT !.get = 1]
            /\ ret' = Ret("Get", GetErr(fo), IF fo = "ok" THEN "object" ELSE "nil")
            /\ poll' = NoPoll
            /\ UNCHANGED <<kind, caller, pc, builderVars, remote>>

Exists ==
    /\ pc = "idle" /\ kind = "bmh" /\ Operates
    /\ IF ~CanCall THEN Panic("Exists")
       ELSE \E fo \in FetchOutcomes :
            /\ lastFetch' = FetchLog(fo, Definition.Name, Definition.Namespace)
            /\ calls' = [NoCalls EXCEPT !.get = 1]
            /\ Object' = GetObj(fo, Definition.Name, Definition.Namespace)
            /\ alias' = FALSE
            /\ ret' = Ret("Exists", NilErr, Bool(ExistsResult(GetErr(fo))))
            /\ poll' = NoPoll
            /\ UNCHANGED <<kind, caller, pc, Definition, errorMsg, apiClient, remote>>

NodePoolGet ==
    /\ pc = "idle" /\ kind = "nodepool" /\ Operates
    /\ IF ValidateMsg # ""
       THEN /\ errorMsg' = ValidateMsg
            /\ Quiet("Get", Errorf(ValidateMsg), "nil")
            /\ UNCHANGED <<Definition, Object, alias, apiClient>>
       ELSE \E fo \in FetchOutcomes :
            /\ lastFetch' = FetchLog(fo, Definition.Name, Definition.Namespace)
            /\ calls' = [NoCalls EXCEPT !.get = 1]
            /\ ret' = Ret("Get", GetErr(fo), IF fo = "ok" THEN "object" ELSE "nil")
            /\ poll' = NoPoll
            /\ UNCHANGED <<kind, caller, pc, builderVars, remote>>

NodePoolExists ==
    /\ pc = "idle" /\ kind = "nodepool" /\ Operates
    /\ IF ValidateMsg # ""
       THEN /\ errorMsg' = ValidateMsg
            /\ Quiet("Exists", NilErr, "false")
            /\ UNCHANGED <<Definition, Object, alias, apiClient>>
       ELSE \E fo \in FetchOutcomes :
            /\ lastFetch' = FetchLog(fo, Definition.Name, Definition.Namespace)
            /\ calls' = [NoCalls EXCEPT !.get = 1]
            /\ Object' = GetObj(fo, Definition.Name, Definition.Namespace)
            /\ alias' = FALSE
            /\ ret' = Ret("Exists", NilErr, Bool(ExistsResult(GetErr(fo))))
            /\ poll' = NoPoll
            /\ UNCHANGED <<kind, caller, pc, Definition, errorMsg, apiClient, remote>>

PullArgs ==
    {a \in [name : Str, nsname : Str] :
        Count(a.name = "") + Count(a.nsname = "") <= 1}

Pull ==
    /\ pc = "new" /\ kind = "bmh"
    /\ \E cli \in BOOLEAN, a \in PullArgs :
        IF ~cli
        THEN /\ pc' = "panic"
             /\ ret' = Ret("Pull", PanicErr, "none")
             /\ UNCHANGED <<kind, caller, builderVars, remote, poll, calls, lastFetch>>
        ELSE \E fo \in FetchOutcomes :
             /\ lastFetch' = FetchLog(fo, a.name, a.nsname)
             /\ calls' = [NoCalls EXCEPT !.get = 1]
             /\ IF ExistsResult(GetErr(fo))
                THEN /\ pc' = "idle"
                     /\ Definition' = GetObj(fo, a.name, a.nsname)
                     /\ Object' = GetObj(fo, a.name, a.nsname)
                     /\ alias' = (fo = "ok")
                     /\ errorMsg' = PullMsg(a.name, a.nsname)
                     /\ apiClient' = cli
                     /\ ret' = Ret("Pull", NilErr, "builder")
                ELSE /\ ret' = Ret("Pull", Errorf("baremetalhost object doesn't exist"),
                                   "nil")
                     /\ UNCHANGED <<pc, builderVars>>
             /\ UNCHANGED <<kind, caller, remote, poll>>

\* Exists in PullNodePool validates first: a nil client or an empty name fails it.
PullNodePool ==
    /\ pc = "new" /\ kind = "nodepool"
    /\ \E cli \in BOOLEAN, a \in PullArgs :
        IF ~cli \/ PullNodePoolMsg(a.name, a.nsname) # ""
        THEN /\ ret' = Ret("PullNodePool", Errorf("nodepool object doesn't exist"), "nil")
             /\ UNCHANGED <<kind, caller, pc, builderVars, remote, poll, calls, lastFetch>>
        ELSE \E fo \in FetchOutcomes :
             /\ lastFetch' = FetchLog(fo, a.name, a.nsname)
             /\ calls' = [NoCalls EXCEPT !.get = 1]
             /\ IF ExistsResult(GetErr(fo))
                THEN /\ pc' = "idle"
                     /\ Definition' = GetObj(fo, a.name, a.nsname)
                     /\ Object' = GetObj(fo, a.name, a.nsname)
                     /\ alias' = (fo = "ok")
                     /\ errorMsg' = ""
                     /\ apiClient' = cli
                     /\ ret' = Ret("PullNodePool", NilErr, "builder")
                ELSE /\ ret' = Ret("PullNodePool",
                                   Errorf("nodepool object doesn't exist"), "nil")
                     /\ UNCHANGED <<pc, builderVars>>
             /\ UNCHANGED <<kind, caller, remote, poll>>

----------------------------------------------------------------------------
\* Create and Delete (bmh)

\* What Create does once Exists answered on fetch outcome fo and, if it submits
\* the Definition, the cluster answered co.
\* Faulty variant: the Definition is submitted whatever Exists reported.
CreateIssuesAlways(fo) == TRUE
CreateIssues(fo) == ~ExistsResult(GetErr(fo))
CreateErr(fo, co) == IF CreateIssues(fo) /\ co # "ok" THEN ApiErr(co) ELSE NilErr
CreateStores(fo, co) == CreateIssues(fo) /\ co = "ok"

\* Faulty variant: the assignment after the remote create is reversed.
CreateDefinitionFromObject(fo, co) ==
    IF CreateStores(fo, co) THEN Object ELSE Definition
\* Create assigns builder.Object only: the Definition it leaves.
CreateDefinition(fo, co) == Definition

CreateBody(op, fo, co) ==
    /\ Definition' = CreateDefinition(fo, co)
    /\ lastFetch' = FetchLog(fo, Definition.Name, Definition.Namespace)
    /\ calls' = [NoCalls EXCEPT !.get = 1,
                                !.create = IF CreateIssues(fo) THEN 1 ELSE 0,
                                !.err = CreateErr(fo, co).class]
    /\ Object' = IF CreateStores(fo, co) THEN Definition
                 ELSE GetObj(fo, Definition.Name, Definition.Namespace)
    /\ alias' = CreateStores(fo, co)
    /\ remote' = IF CreateStores(fo, co) THEN Present(InitialStatus) ELSE remote
    /\ UNCHANGED <<kind, caller, errorMsg, apiClient>>

Create ==
    /\ pc = "idle" /\ kind = "bmh" /\ Operates
    /\ IF errorMsg # ""
       THEN Quiet("Create", Errorf(errorMsg), "nil") /\ UNCHANGED builderVars
       ELSE IF ~CanCall THEN Panic("Create")
       ELSE \E fo \in FetchOutcomes, co \in CreateOutcomes :
            /\ CreateBody("Create", fo, co)
            /\ ret' = Ret("Create", CreateErr(fo, co), "builder")
            /\ poll' = NoPoll
            /\ UNCHANGED pc

DeleteIssues(fo) == ExistsResult(GetErr(fo))
DeleteErr(fo, do) ==
    IF ~DeleteIssues(fo)
    THEN Errorf("bmh cannot be deleted because it does not exist")
    ELSE IF do # "ok" THEN Wrap("can not delete bmh", ApiErr(do))
    ELSE NilErr
\* Faulty variant: the Object is cleared even when the remote delete failed.
DeleteClearsOnFailure(fo, do) == DeleteIssues(fo)
DeleteClears(fo, do) == DeleteIssues(fo) /\ do = "ok"

DeleteBody(fo, do, gone) ==
    /\ lastFetch' = FetchLog(fo, Definition.Name, Definition.Namespace)
    /\ calls' = [NoCalls EXCEPT !.get = 1,
                                !.delete = IF DeleteIssues(fo) THEN 1 ELSE 0,
                                !.err = IF DeleteIssues(fo) /\ do # "ok"
                                        THEN do ELSE "nil"]
    /\ Object' = IF DeleteClears(fo, do) THEN NilObj
                 ELSE GetObj(fo, Definition.Name, Definition.Namespace)
    /\ alias' = FALSE
    /\ remote' = IF DeleteIssues(fo) /\ do = "ok" /\ gone THEN Absent ELSE remote
    /\ UNCHANGED <<kind, caller, Definition, errorMsg, apiClient>>

Delete ==
    /\ pc = "idle" /\ kind = "bmh" /\ Operates
    /\ IF ~CanCall THEN Panic("Delete")
       ELSE \E fo \in FetchOutcomes, do \in DeleteOutcomes, gone \in BOOLEAN :
            /\ DeleteBody(fo, do, gone)
            /\ ret' = Ret("Delete", DeleteErr(fo, do), "builder")
            /\ poll' = NoPoll
            /\ UNCHANGED pc

----------------------------------------------------------------------------
\* Mutators

HintStrFields ==
    {"DeviceName", "HCTL", "Model", "Vendor", "SerialNumber", "WWN",
     "WWNWithExtension", "WWNVendorExtension"}
Sizes == {-1, 0, 1}

HintCount(h) ==
    IF h = NoHints THEN 0
    ELSE Cardinality({f \in HintStrFields : h[f] # ""})
         + Count(h.MinSizeGigabytes # 0) + Count(h.Rotational # "nil")

DefHintCount(def) == IF def = NilObj THEN 0 ELSE HintCount(def.RootDeviceHints)

\* The errorMsg a WithRootDevice* setter leaves: the Definition check, then the
\* value check, each overwriting what is stored.
\* Faulty variant: a setter given a valid value resets the message.
HintMsgResetting(def, msg, invalid, emsg) ==
    IF invalid THEN emsg
    ELSE IF def = NilObj THEN UndefinedCrdObjectErrString("BareMetalHost")
    ELSE ""
HintMsg(def, msg, invalid, emsg) ==
    IF invalid THEN emsg
    ELSE IF def = NilObj THEN UndefinedCrdObjectErrString("BareMetalHost")
    ELSE msg

\* The Definition a WithRootDevice* setter leaves.
HintDef(def, msg, field, value, invalid, emsg) ==
    IF HintMsg(def, msg, invalid, emsg) # "" THEN def
    ELSE [def EXCEPT !.RootDeviceHints =
             [(IF @ = NoHints THEN EmptyHints ELSE @) EXCEPT ![field] = value]]

SetHint(op, field, value, invalid, emsg) ==
    /\ pc = "idle" /\ kind = "bmh" /\ Mutates
    /\ DefHintCount(HintDef(Definition, errorMsg, field, value, invalid, emsg)) <= MaxMut
    /\ errorMsg' = HintMsg(Definition, errorMsg, invalid, emsg)
    /\ Definition' = HintDef(Definition, errorMsg, field, value, invalid, emsg)
    /\ Object' = IF alias THEN Definition' ELSE Object
    /\ Mutated(op)
    /\ UNCHANGED <<alias, apiClient>>

WithRootDeviceDeviceName ==
    \E deviceName \in Str :
        SetHint("WithRootDeviceDeviceName", "DeviceName", deviceName, deviceName = "",
                "the baremetalhost rootDeviceHint deviceName cannot be empty")

WithRootDeviceHTCL ==
    \E hctl \in Str :
        SetHint("WithRootDeviceHTCL", "HCTL", hctl, hctl = "",
                "the baremetalhost rootDeviceHint hctl cannot be empty")

WithRootDeviceModel ==
    \E model \in Str :
        SetHint("WithRootDeviceModel", "Model", model, model = "",
                "the baremetalhost rootDeviceHint model cannot be empty")

WithRootDeviceVendor ==
    \E vendor \in Str :
        SetHint("WithRootDeviceVendor", "Model", vendor, vendor = "",
                "the baremetalhost rootDeviceHint vendor cannot be empty")

WithRootDeviceSerialNumber ==
    \E serialNumber \in Str :
        SetHint("WithRootDeviceSerialNumber", "SerialNumber", serialNumber,
                serialNumber = "",
                "the baremetalhost rootDeviceHint serialNumber cannot be empty")

WithRootDeviceMinSizeGigabytes ==
    \E size \in Sizes :
        SetHint("WithRootDeviceMinSizeGigabytes", "MinSizeGigabytes", size, size < 0,
                "the baremetalhost rootDeviceHint size cannot be less than 0")

WithRootDeviceWWN ==
    \E wwn \in Str :
        SetHint("WithRootDeviceWWN", "WWN", wwn, wwn = "",
                "the baremetalhost rootDeviceHint wwn cannot be empty")

WithRootDeviceWWNWithExtension ==
    \E wwnWithExtension \in Str :
        SetHint("WithRootDeviceWWNWithExtension", "WWNWithExtension", wwnWithExtension,
                wwnWithExtension = "",
                "the baremetalhost rootDeviceHint wwnWithExtension cannot be empty")

WithRootDeviceWWNVendorExtension ==
    \E wwnVendorExtension \in Str :
        SetHint("WithRootDeviceWWNVendorExtension", "WWNVendorExtension",
                wwnVendorExtension, wwnVendorExtension = "",
                "the baremetalhost rootDeviceHint wwnVendorExtension cannot be empty")

WithRootDeviceRotationalDisk ==
    \E rotational \in BOOLEAN :
        SetHint("WithRootDeviceRotationalDisk", "Rotational", Bool(rotational), FALSE, "")

\* The options passed to WithOptions: a nil option, one that sets a hint through
\* a setter, one that passes a setter an empty value, one that returns an error.
OptionKinds == {"nil", "set", "bad", "err"}
OptionLists == UNION {[1..n -> OptionKinds] : n \in 0..MaxOptions}
OptionErrText == "option failed"

OptionDef(o, def, msg) ==
    CASE o = "set" -> HintDef(def, msg, "DeviceName", "x", FALSE, "")
      [] OTHER -> def
OptionMsg(o, def, msg) ==
    CASE o = "set" -> HintMsg(def, msg, FALSE, "")
      [] o = "bad" -> HintMsg(def, msg, TRUE,
                              "the baremetalhost rootDeviceHint deviceName cannot be empty")
      [] OTHER -> msg
OptionFails(o) == o = "err"

\* The loop over the options: [def, msg] after options[i..].
RECURSIVE RunOptions(_, _, _, _)
RunOptions(options, i, def, msg) ==
    IF i > Len(options) THEN [def |-> def, msg |-> msg]
    ELSE IF options[i] = "nil" THEN RunOptions(options, i + 1, def, msg)
    ELSE IF OptionFails(options[i])
         THEN [def |-> OptionDef(options[i], def, msg), msg |-> OptionErrText]
    ELSE RunOptions(options, i + 1, OptionDef(options[i], def, msg),
                    OptionMsg(options[i], def, msg))

WithOptionsResult(options, def, msg) ==
    IF def = NilObj THEN [def |-> def, msg |-> UndefinedCrdObjectErrString("bmh")]
    ELSE IF msg # "" THEN [def |-> def, msg |-> msg]
    ELSE RunOptions(options, 1, def, msg)

WithOptions ==
    /\ pc = "idle" /\ kind = "bmh" /\ Mutates
    /\ \E options \in OptionLists :
        LET r == WithOptionsResult(options, Definition, errorMsg) IN
        /\ DefHintCount(r.def) <= MaxMut
        /\ Definition' = r.def
        /\ errorMsg' = r.msg
        /\ Object' = IF alias THEN Definition' ELSE Object
    /\ Mutated("WithOptions")
    /\ UNCHANGED <<alias, apiClient>>

WithReplicas ==
    /\ pc = "idle" /\ kind = "nodepool" /\ Mutates
    /\ \E replicas \in Replicas :
        /\ errorMsg' = ValidateMsg
        /\ Definition' = IF ValidateMsg # "" THEN Definition
                         ELSE [Definition EXCEPT !.Replicas = replicas]
        /\ Object' = IF alias THEN Definition' ELSE Object
    /\ Mutated("WithReplicas")
    /\ UNCHANGED <<alias, apiClient>>

----------------------------------------------------------------------------
\* The poll loops: wait.PollImmediate and wait.Poll run a condition every
\* interval until it is done, fails, or the timeout expires.

\* condition functions: [done, err] on the outcome of the cycle's Get
\* Faulty variant: the comparison with the wanted state is lost.
StatusConditionNeverDone(fo, state, status) ==
    [done |-> FALSE, err |-> NilErr]
StatusCondition(fo, state, status) ==
    IF GetErr(fo) # NilErr THEN [done |-> FALSE, err |-> NilErr]
    ELSE IF state = status THEN [done |-> TRUE, err |-> NilErr]
    ELSE [done |-> FALSE, err |-> GetErr(fo)]

\* Faulty variant: the error of a failed fetch is handed to the poll loop.
ReplicasConditionFailing(fo, statusReplicas, replicas) ==
    [done |-> GetErr(fo) = NilErr /\ statusReplicas = replicas, err |-> GetErr(fo)]
ReplicasCondition(fo, statusReplicas, replicas) ==
    IF GetErr(fo) # NilErr THEN [done |-> FALSE, err |-> NilErr]
    ELSE [done |-> statusReplicas = replicas, err |-> GetErr(fo)]

\* Faulty variant: not-found is handed to the poll loop like any other error.
DeletedConditionStrict(fo) ==
    [done |-> FALSE, err |-> GetErr(fo)]
DeletedCondition(fo) ==
    IF GetErr(fo) = NilErr THEN [done |-> FALSE, err |-> NilErr]
    ELSE IF IsNotFound(GetErr(fo)) THEN [done |-> TRUE, err |-> NilErr]
    ELSE [done |-> FALSE, err |-> GetErr(fo)]

Condition(cond, fo, target) ==
    CASE cond = "status" -> StatusCondition(fo, remote.status, target)
      [] cond = "replicas" -> ReplicasCondition(fo, remote.status, target)
      [] OTHER -> DeletedCondition(fo)

\* The condition assigns the fetched object to builder.Object.
\* Faulty variant: the deletion wait stores what it fetched as well.
ConditionStoresAlways(cond) == TRUE
ConditionStores(cond) == cond \in {"status", "replicas"}

PollStart(op, cond, target, timeout, immediate) ==
    /\ pc' = "polling"
    /\ poll' = [op |-> op, cond |-> cond, target |-> target, timeout |-> timeout,
                clock |-> 0, due |-> immediate, closed |-> FALSE, cycles |-> 0]
    /\ ret' = Ret(op, NilErr, "pending")

\* What the call returns beside the error.
WaitVal(op, err) ==
    CASE op = "WaitForReplicas" -> IF err = NilErr THEN "builder" ELSE "nil"
      [] op = "CreateAndWaitUntilProvisioned" -> "builder"
      [] op = "DeleteAndWaitUntilDeleted" -> "nil"
      [] OTHER -> "none"

\* One run of the condition.
PollCondition ==
    /\ pc = "polling" /\ poll.due
    /\ IF kind = "bmh" /\ ~CanCall
       THEN /\ pc' = "panic"
            /\ ret' = [ret EXCEPT !.err = PanicErr, !.val = "none"]
            /\ UNCHANGED <<kind, caller, builderVars, remote, poll, calls, lastFetch>>
       ELSE \E fo \in FetchOutcomes :
            LET c == Condition(poll.cond, fo, poll.target)
                err == IF c.err # NilErr THEN c.err
                       ELSE IF c.done THEN NilErr
                       ELSE ErrWaitTimeout
                returns == c.err # NilErr \/ c.done \/ poll.closed
            IN
            /\ lastFetch' = FetchLog(fo, Definition.Name, Definition.Namespace)
            /\ calls' = [calls EXCEPT !.get = @ + 1]
            /\ Object' = IF ConditionStores(poll.cond)
                         THEN GetObj(fo, Definition.Name, Definition.Namespace)
                         ELSE Object
            /\ alias' = IF ConditionStores(poll.cond) THEN FALSE ELSE alias
            /\ poll' = [poll EXCEPT !.due = FALSE, !.cycles = @ + 1]
            /\ pc' = IF returns THEN "idle" ELSE "polling"
            /\ ret' = IF returns
                      THEN [ret EXCEPT !.err = err, !.val = WaitVal(poll.op, err)]
                      ELSE ret
            /\ UNCHANGED <<kind, caller, Definition, errorMsg, apiClient, remote>>

\* An interval passes inside the timeout: the condition is due again.
PollTick ==
    /\ pc = "polling" /\ ~poll.due /\ poll.clock + 1 < poll.timeout
    /\ poll' = [poll EXCEPT !.clock = @ + 1, !.due = TRUE]
    /\ UNCHANGED <<kind, caller, pc, builderVars, remote, ret, calls, lastFetch>>

\* The timeout expires and the loop returns ErrWaitTimeout.
PollTimeout ==
    /\ pc = "polling" /\ ~poll.due /\ poll.clock + 1 = poll.timeout
    /\ poll' = [poll EXCEPT !.clock = @ + 1]
    /\ pc' = "idle"
    /\ ret' = [ret EXCEPT !.err = ErrWaitTimeout, !.val = WaitVal(poll.op, ErrWaitTimeout)]
    /\ UNCHANGED <<kind, caller, builderVars, remote, calls, lastFetch>>

\* The timeout expires and the loop runs the condition once more before it
\* returns (the channel-driven wait.WaitFor).
PollLastCheck ==
    /\ pc = "polling" /\ ~poll.due /\ poll.clock + 1 = poll.timeout
    /\ poll' = [poll EXCEPT !.clock = @ + 1, !.due = TRUE, !.closed = TRUE]
    /\ UNCHANGED <<kind, caller, pc, builderVars, remote, ret, calls, lastFetch>>

WaitUntilInStatusCall(status, timeout) ==
    /\ pc = "idle" /\ kind = "bmh" /\ Operates
    /\ calls' = NoCalls
    /\ IF errorMsg # ""
       THEN /\ ret' = Ret("WaitUntilInStatus", Errorf(errorMsg), "none")
            /\ poll' = NoPoll
            /\ UNCHANGED pc
       ELSE PollStart("WaitUntilInStatus", "status", status, timeout, TRUE)
    /\ lastFetch' = NoFetch
    /\ UNCHANGED <<kind, caller, builderVars, remote>>

WaitUntilInStatus ==
    \E status \in States, timeout \in Timeouts : WaitUntilInStatusCall(status, timeout)

WaitUntilProvisioned ==
    \E timeout \in Timeouts : WaitUntilInStatusCall(StateProvisioned, timeout)

WaitUntilProvisioning ==
    \E timeout \in Timeouts : WaitUntilInStatusCall(StateProvisioning, timeout)

WaitUntilReady ==
    \E timeout \in Timeouts : WaitUntilInStatusCall(StateReady, timeout)

WaitUntilAvailable ==
    \E timeout \in Timeouts : WaitUntilInStatusCall(StateAvailable, timeout)

WaitUntilDeleted ==
    /\ pc = "idle" /\ kind = "bmh" /\ Operates
    /\ calls' = NoCalls
    /\ \E timeout \in Timeouts :
        PollStart("WaitUntilDeleted", "deleted", "none", timeout, FALSE)
    /\ lastFetch' = NoFetch
    /\ UNCHANGED <<kind, caller, builderVars, remote>>

WaitForReplicas ==
    /\ pc = "idle" /\ kind = "nodepool" /\ Operates
    /\ calls' = NoCalls
    /\ errorMsg' = ValidateMsg
    /\ IF ValidateMsg # ""
       THEN /\ ret' = Ret("WaitForReplicas", Errorf(ValidateMsg), "builder")
            /\ poll' = NoPoll
            /\ UNCHANGED pc
       ELSE \E replicas \in Replicas, timeout \in Timeouts :
            PollStart("WaitForReplicas", "replicas", replicas, timeout, TRUE)
    /\ lastFetch' = NoFetch
    /\ UNCHANGED <<kind, caller, Definition, Object, alias, apiClient, remote>>

CreateAndWaitUntilProvisioned ==
    /\ pc = "idle" /\ kind = "bmh" /\ Operates
    /\ IF errorMsg # ""
       THEN Quiet("CreateAndWaitUntilProvisioned", Errorf(errorMsg), "nil")
            /\ UNCHANGED builderVars
       ELSE IF ~CanCall THEN Panic("CreateAndWaitUntilProvisioned")
       ELSE \E fo \in FetchOutcomes, co \in CreateOutcomes, timeout \in Timeouts :
            /\ CreateBody("CreateAndWaitUntilProvisioned", fo, co)
            /\ IF CreateErr(fo, co) # NilErr
               THEN /\ ret' = Ret("CreateAndWaitUntilProvisioned", CreateErr(fo, co), "nil")
                    /\ poll' = NoPoll
                    /\ UNCHANGED pc
               ELSE PollStart("CreateAndWaitUntilProvisioned", "status",
                              StateProvisioned, timeout, TRUE)

DeleteAndWaitUntilDeleted ==
    /\ pc = "idle" /\ kind = "bmh" /\ Operates
    /\ IF ~CanCall THEN Panic("DeleteAndWaitUntilDeleted")
       ELSE \E fo \in FetchOutcomes, do \in DeleteOutcomes, gone \in BOOLEAN,
               timeout \in Timeouts :
            /\ DeleteBody(fo, do, gone)
            /\ IF DeleteErr(fo, do) # NilErr
               THEN /\ ret' = Ret("DeleteAndWaitUntilDeleted", DeleteErr(fo, do), "builder")
                    /\ poll' = NoPoll
                    /\ UNCHANGED pc
               ELSE PollStart("DeleteAndWaitUntilDeleted", "deleted", "none", timeout, FALSE)

----------------------------------------------------------------------------
\* The cluster changes on its own.

EnvActs == pc = "new" \/ (pc # "panic" /\ caller = "operator")

EnvSetStatus ==
    /\ EnvActs /\ remote.present
    /\ \E s \in StatusValues \ {remote.status} : remote' = Present(s)
    /\ UNCHANGED <<kind, caller, pc, builderVars, poll, ret, calls, lastFetch>>

EnvRemove ==
    /\ EnvActs /\ remote.present
    /\ remote' = Absent
    /\ UNCHANGED <<kind, caller, pc, builderVars, poll, ret, calls, lastFetch>>

EnvAppear ==
    /\ EnvActs /\ ~remote.present
    /\ remote' = Present(InitialStatus)
    /\ UNCHANGED <<kind, caller, pc, builderVars, poll, ret, calls, lastFetch>>

----------------------------------------------------------------------------
\* Properties

ObservedStatus(obj) == IF kind = "bmh" THEN obj.State ELSE obj.StatusReplicas
StatusWait == poll.cond \in {"status", "replicas"}
DeletionWait == poll.cond = "deleted"
Returned == pc = "idle"
\* the last poll cycle fetched the resource and found it at the target
Hit ==
    /\ poll.cycles > 0
    /\ lastFetch.class = "ok"
    /\ ObservedStatus(lastFetch.obj) = poll.target

\* C1: in a status wait or a replica wait, the poll cycle whose fetch observes
\* the target ends the wait: the call has returned, with no error, and so no
\* fetch follows that one.
C1_HitReturnsSuccess ==
    (StatusWait /\ Hit) => (Returned /\ ret.err = NilErr)

C1_Witness ==
    /\ StatusWait /\ Hit /\ Returned /\ ret.err = NilErr /\ errorMsg = ""
    /\ poll.cycles = 2 /\ poll.cycles < poll.timeout

\* C2: a status wait or a replica wait returns nothing but success or the
\* timeout error, whatever its fetches failed with; when its last cycle did not
\* observe the target it returns the timeout error, and only with the whole
\* timeout elapsed.
C2_FailuresSwallowedUntilTimeout ==
    (StatusWait /\ Returned) =>
        /\ ret.err \in {NilErr, ErrWaitTimeout}
        /\ ~Hit => (ret.err = ErrWaitTimeout /\ poll.clock = poll.timeout)
        /\ ret.err = ErrWaitTimeout => ~Hit

C2_Witness ==
    /\ StatusWait /\ Returned /\ ret.err = ErrWaitTimeout
    /\ poll.cycles >= 2 /\ lastFetch.class \in {"NotFound", "Other"}
    /\ poll.clock = poll.timeout

\* C3: in WaitUntilDeleted a cycle whose fetch succeeds never ends the wait with
\* success, a cycle whose fetch is not-found ends it with success, and a cycle
\* whose fetch fails otherwise ends it with that error.
C3_DeletionWaitErrorPolicy ==
    (DeletionWait /\ poll.cycles > 0 /\ pc # "panic") =>
        /\ lastFetch.class = "ok" =>
              (pc = "polling" \/ (Returned /\ ret.err = ErrWaitTimeout
                                    /\ poll.clock = poll.timeout))
        /\ lastFetch.class = "NotFound" => (Returned /\ ret.err = NilErr)
        /\ lastFetch.class = "Other" => (Returned /\ ret.err = ApiErr("Other"))

C3_Witness ==
    /\ DeletionWait /\ poll.cycles = 2 /\ lastFetch.class = "NotFound"
    /\ Returned /\ ret.err = NilErr

\* C4 as stated: in every builder state Exists returns false only when the
\* fetch it performs fails with not-found.
C4_ExistsFalseOnlyOnNotFound ==
    (ret.op = "Exists" /\ pc # "panic") =>
        /\ ret.val \in {"true", "false"}
        /\ ret.val = "false" <=> (calls.get = 1 /\ lastFetch.class = "NotFound")

\* C4 amended: Exists fetches once and returns false exactly when that fetch
\* is not-found, except on a node pool builder that fails validate, where it
\* returns false without fetching.
C4_ExistsAmended ==
    (ret.op = "Exists" /\ pc # "panic") =>
        IF kind = "nodepool" /\ errorMsg # ""
        THEN ret.val = "false" /\ calls.get = 0
        ELSE /\ calls.get = 1
             /\ ret.val \in {"true", "false"}
             /\ ret.val = "false" <=> lastFetch.class = "NotFound"

C4_Witness ==
    /\ ret.op = "Exists" /\ kind = "nodepool" /\ errorMsg # ""
    /\ ret.val = "false" /\ calls.get = 0

\* C5: Delete on a resource Exists reports absent returns the "cannot be
\* deleted" error without a remote delete; otherwise it issues one remote
\* delete, and returns the wrapped cause with the Object left as fetched when
\* that fails, and clears the Object when it succeeds.
C5_Delete ==
    (ret.op = "Delete" /\ pc # "panic") =>
        /\ calls.get = 1
        /\ IF lastFetch.class = "NotFound"
           THEN /\ calls.delete = 0
                /\ ret.err = Errorf("bmh cannot be deleted because it does not exist")
           ELSE /\ calls.delete = 1
                /\ IF calls.err = "nil"
                   THEN ret.err = NilErr /\ Object = NilObj
                   ELSE /\ ret.err = Wrap("can not delete bmh", ApiErr(calls.err))
                        /\ Object = lastFetch.obj

C5_Witness ==
    /\ ret.op = "Delete" /\ calls.delete = 1 /\ ret.err.class = "Wrapped"
    /\ Object # NilObj

\* C6: Create on a builder without Error State fetches once, submits the
\* Definition only when that fetch is not-found, and at most once; a submitted
\* create that succeeds makes the Object the Definition, one that fails is
\* returned and leaves the Object unset; an existing resource is not submitted
\* and Create returns no error.
C6_Create ==
    (ret.op = "Create" /\ pc # "panic" /\ errorMsg = "") =>
        /\ calls.get = 1
        /\ calls.create = IF lastFetch.class = "NotFound" THEN 1 ELSE 0
        /\ lastFetch.present => (calls.create = 0 /\ ret.err = NilErr)
        /\ IF calls.create = 1 /\ calls.err = "nil"
           THEN ret.err = NilErr /\ Object = Definition
           ELSE IF calls.create = 1
           THEN ret.err = ApiErr(calls.err) /\ Object = NilObj /\ Object # Definition
           ELSE ret.err = NilErr

C6_Witness ==
    /\ ret.op = "Create" /\ errorMsg = "" /\ lastFetch.class = "ok"
    /\ calls.create = 0 /\ ret.err = NilErr

\* C7 as stated: with the Error State set every operation returns without a
\* cluster API call, and what it returns as error is the stored message.
ShortCircuitOps ==
    {"Create", "Delete", "Get", "Exists", "CreateAndWaitUntilProvisioned",
     "WaitUntilInStatus", "WaitUntilDeleted", "WaitForReplicas"}

C7_ShortCircuit ==
    (errorMsg # "" /\ ret.op \in ShortCircuitOps /\ pc # "panic") =>
        /\ Returned
        /\ calls.get = 0 /\ calls.create = 0 /\ calls.delete = 0
        /\ ret.err # NilErr => ret.err = Errorf(errorMsg)

C9_FaultsPropagate ==
    (ret.op \in {"Get", "Create", "Delete"} /\ pc # "panic"
       /\ (lastFetch.class = "Other" \/ calls.err = "Other")) =>
        /\ ret.err # NilErr
        /\ ret.op \in {"Get", "Create"} => ret.err = ApiErr("Other")
        /\ ret.op = "Delete" => ret.err.class = "Wrapped"

\* C10 as stated: after a call that fetches (Get, Exists, a poll cycle of any
\* wait) the Object is the value of that fetch, nil when it failed.
FetchingOps == {"Get", "Exists", "WaitUntilInStatus", "WaitForReplicas", "WaitUntilDeleted"}

MutatorOps ==
    {"WithRootDeviceDeviceName", "WithRootDeviceHTCL", "WithRootDeviceModel",
     "WithRootDeviceVendor", "WithRootDeviceSerialNumber",
     "WithRootDeviceMinSizeGigabytes", "WithRootDeviceWWN",
     "WithRootDeviceWWNWithExtension", "WithRootDeviceWWNVendorExtension",
     "WithRootDeviceRotationalDisk", "WithOptions", "WithReplicas"}

C11_MutatorNoOpOnError ==
    [][(errorMsg # "" /\ ret'.op \in MutatorOps) =>
           (Definition' = Definition /\ errorMsg' = errorMsg)]_vars

\* C12 as stated: a WithRootDevice* setter given a valid value on a builder
\* without Error State writes the hint field it is named after (Vendor for
\* WithRootDeviceVendor), allocating the hints if absent, and leaves every
\* other hint field as it was.
SetterOps == MutatorOps \ {"WithOptions", "WithReplicas"}
AllHintFields == HintStrFields \cup {"MinSizeGigabytes", "Rotational"}
HintFieldOf(op) ==
    CASE op = "WithRootDeviceDeviceName" -> "DeviceName"
      [] op = "WithRootDeviceHTCL" -> "HCTL"
      [] op = "WithRootDeviceModel" -> "Model"
      [] op = "WithRootDeviceVendor" -> "Vendor"
      [] op = "WithRootDeviceSerialNumber" -> "SerialNumber"
      [] op = "WithRootDeviceMinSizeGigabytes" -> "MinSizeGigabytes"
      [] op = "WithRootDeviceWWN" -> "WWN"
      [] op = "WithRootDeviceWWNWithExtension" -> "WWNWithExtension"
      [] op = "WithRootDeviceWWNVendorExtension" -> "WWNVendorExtension"
      [] OTHER -> "Rotational"
HintsOf(def) == IF def.RootDeviceHints = NoHints THEN EmptyHints ELSE def.RootDeviceHints

SetterWritesOwnField(ops) ==
    (ret'.op \in ops /\ errorMsg = "" /\ errorMsg' = "" /\ Definition # NilObj) =>
        /\ Definition'.RootDeviceHints # NoHints
        /\ \A f \in AllHintFields \ {HintFieldOf(ret'.op)} :
              Definition'.RootDeviceHints[f] = HintsOf(Definition)[f]
        /\ HintFieldOf(ret'.op) \in HintStrFields =>
              Definition'.RootDeviceHints[HintFieldOf(ret'.op)] # ""

C12_SetterWritesOwnField ==
    [][SetterWritesOwnField(SetterOps)]_vars

\* C13 as stated, its safety part: a wait that has left its poll loop has
\* returned, and what it returned is success, the timeout error or, for a
\* deletion wait only, the error of its last fetch.
WaitOutcomes ==
    {NilErr, ErrWaitTimeout} \cup (IF DeletionWait THEN {ApiErr("Other")} ELSE {})

C13_WaitReturnsOutcome ==
    (poll.op # "none" /\ pc # "polling") => (Returned /\ ret.err \in WaitOutcomes)

\* C14 as stated: a non-mutator operation leaves the Definition as it was, and
\* of the builder's fields writes the Object only.
OperationOps == ShortCircuitOps \cup {"DeleteAndWaitUntilDeleted"}

Next ==
    \/ NewBuilder
    \/ NewNodePoolBuilder
    \/ Pull
    \/ PullNodePool
    \/ WithRootDeviceDeviceName
    \/ WithRootDeviceHTCL
    \/ WithRootDeviceModel
    \/ WithRootDeviceVendor
    \/ WithRootDeviceSerialNumber
    \/ WithRootDeviceMinSizeGigabytes
    \/ WithRootDeviceWWN
    \/ WithRootDeviceWWNWithExtension
    \/ WithRootDeviceWWNVendorExtension
    \/ WithRootDeviceRotationalDisk
    \/ WithOptions
    \/ WithReplicas
    \/ Get
    \/ Exists
    \/ NodePoolGet
    \/ NodePoolExists
    \/ Create
    \/ Delete
    \/ CreateAndWaitUntilProvisioned
    \/ WaitUntilProvisioned
    \/ WaitUntilProvisioning
    \/ WaitUntilReady
    \/ WaitUntilAvailable
    \/ WaitUntilInStatus
    \/ DeleteAndWaitUntilDeleted
    \/ WaitUntilDeleted
    \/ WaitForReplicas
    \/ PollCondition
    \/ PollTick
    \/ PollTimeout
    \/ PollLastCheck
    \/ EnvSetStatus
    \/ EnvRemove
    \/ EnvAppear

Spec == Init /\ [][Next]_vars
====
